---- MODULE Spec2Model ----
(***************************************************************************)
(* nx_parallel.algorithms.vitality.closeness_vitality                      *)
(*                                                                         *)
(* The caller owns an undirected graph G and calls closeness_vitality on   *)
(* it.  A call with a node returns baseline - W(G - node) at once; a call  *)
(* without a node resolves n_jobs, hands one task per node of G to         *)
(* joblib.Parallel and returns dict(result) after the join.  Every task    *)
(* re-enters closeness_vitality with the node bound.                       *)
(*                                                                         *)
(* Collaborators whose code is outside the repository are modelled by      *)
(* their library behaviour: networkx.wiener_index (null graph raises,      *)
(* disconnected graph gives inf, a non-numeric weight raises), Python      *)
(* float arithmetic (inf - inf = nan, nan # nan), joblib.Parallel          *)
(* (n_jobs = 0 raises, a failed task's exception is re-raised in the       *)
(* caller, results are collected after all tasks completed).               *)
(***************************************************************************)
EXTENDS Integers, FiniteSets, Sequences, TLC

\* ------------------------------------------------------------------ bounds
\* Largest node count of the caller's graph; its nodes are 1..n, n <= MaxNodes.
MaxNodes == 3

\* os.cpu_count() of the host.
NCpus == 2

\* ------------------------------------------------------------- value domain
\* Python's None for the `node` argument (nodes are positive integers).
None == 0

\* Edge attribute that is not a number (e.g. a string stored under `weight`).
NonNumeric == -1

\* Edge attribute values of the caller's graph.
EdgeAttrs == {2, NonNumeric}

\* Weight selectors: None (unit weights) or the attribute name.
Weights == {"None", "weight"}

\* Floats, None and raised exceptions as records.
Fin(n) == [k |-> "fin", v |-> n, e |-> ""]
Inf == [k |-> "inf", v |-> 0, e |-> ""]
NegInf == [k |-> "ninf", v |-> 0, e |-> ""]
NaN == [k |-> "nan", v |-> 0, e |-> ""]
NoneVal == [k |-> "none", v |-> 0, e |-> ""]
Raise(x) == [k |-> "err", v |-> 0, e |-> x]
\* What a task that entered the all-nodes branch would hand back (a dict).
DictVal == [k |-> "dict", v |-> 0, e |-> ""]

IsErr(x) == x.k = "err"

\* Python float subtraction a - b on the extended reals.
FloatSub(a, b) ==
    CASE a.k = "nan" \/ b.k = "nan" -> NaN
      [] a.k = "fin" /\ b.k = "fin" -> Fin(a.v - b.v)
      [] a.k = "fin" /\ b.k = "inf" -> NegInf
      [] a.k = "fin" /\ b.k = "ninf" -> Inf
      [] a.k = "inf" /\ b.k = "inf" -> NaN
      [] a.k = "ninf" /\ b.k = "ninf" -> NaN
      [] a.k = "inf" -> Inf
      [] OTHER -> NegInf

\* Python's == on floats: nan compares unequal to everything, itself included.
FloatEq(a, b) == a.k # "nan" /\ b.k # "nan" /\ a = b

\* ------------------------------------------------------------------ graphs
Pairs(S) == {e \in SUBSET S : Cardinality(e) = 2}

\* Undirected graphs on nodes 1..n: attr maps each edge to its attribute.
Graphs ==
    UNION {UNION {[nodes : {1..n}, attr : [E -> EdgeAttrs]] : E \in SUBSET Pairs(1..n)}
           : n \in 0..MaxNodes}

\* G.subgraph(S): the induced view; members of S that are not nodes are ignored.
Subgraph(g, S) ==
    [nodes |-> g.nodes \cap S,
     attr |-> [e \in {d \in DOMAIN g.attr : d \subseteq S} |-> g.attr[e]]]

\* Larger than every finite path length (at most 2 per edge, MaxNodes - 1 edges).
Unreached == 2 * MaxNodes

EdgeCost(g, weight, u, v) ==
    IF {u, v} \in DOMAIN g.attr
    THEN IF weight = "None" THEN 1 ELSE g.attr[{u, v}]
    ELSE Unreached

Min(a, b) == IF a < b THEN a ELSE b

\* All-pairs shortest path lengths (Floyd-Warshall over the intermediate nodes K).
RECURSIVE ShortestPathLength(_, _)
ShortestPathLength(d, K) ==
    IF K = {} THEN d
    ELSE LET k == CHOOSE x \in K : TRUE
         IN  ShortestPathLength(
                 [p \in DOMAIN d |-> Min(d[p], d[<<p[1], k>>] + d[<<k, p[2]>>])],
                 K \ {k})

\* nx.shortest_path_length(g, weight=weight): <<u, v>> -> distance.
Distances(g, weight) ==
    ShortestPathLength(
        [p \in g.nodes \X g.nodes |->
            IF p[1] = p[2] THEN 0 ELSE EdgeCost(g, weight, p[1], p[2])],
        g.nodes)

\* nx.is_connected on a graph with at least one node.
IsConnected(g) ==
    LET d == Distances(g, "None") IN \A p \in DOMAIN d : d[p] < Unreached

RECURSIVE SumOver(_, _)
SumOver(f, S) ==
    IF S = {} THEN 0
    ELSE LET x == CHOOSE y \in S : TRUE IN f[x] + SumOver(f, S \ {x})

\* nx.wiener_index(g, weight=weight).
WienerIndex(g, weight) ==
    IF g.nodes = {} THEN Raise("NetworkXPointlessConcept")
    ELSE IF ~IsConnected(g) THEN Inf
    ELSE IF weight # "None" /\ \E e \in DOMAIN g.attr : g.attr[e] = NonNumeric
         THEN Raise("TypeError")
    ELSE LET d == Distances(g, weight)
         IN  Fin(SumOver(d, DOMAIN d) \div 2)

\* ------------------------------------------------------- closeness_vitality
\* Lines 65-66: the baseline, computed only when the caller gave none.
Baseline(g, weight, wi) == IF wi = NoneVal THEN WienerIndex(g, weight) ELSE wi

\* Variant of VitalityOfNode: the node is validated before the view is built.
VitalityOfNode_Validating(g, node, weight, wi) ==
    IF node \notin g.nodes THEN Raise("NodeNotFound")
    ELSE LET after == WienerIndex(Subgraph(g, g.nodes \ {node}), weight)
         IN  IF IsErr(after) THEN after ELSE FloatSub(wi, after)

\* Variant of VitalityOfNode: the operands of line 70 are swapped.
VitalityOfNode_Swapped(g, node, weight, wi) ==
    LET after == WienerIndex(Subgraph(g, g.nodes \ {node}), weight)
    IN  IF IsErr(after) THEN after ELSE FloatSub(after, wi)

\* Lines 69-70: baseline minus the Wiener index of the view without `node`.
VitalityOfNode(g, node, weight, wi) ==
    LET after == WienerIndex(Subgraph(g, g.nodes \ {node}), weight)
    IN  IF IsErr(after) THEN after ELSE FloatSub(wi, after)

\* Variant of GraphAfterView: the node is removed from the graph itself.
GraphAfterView_InPlace(g, node) == Subgraph(g, g.nodes \ {node})

\* Line 69: G.subgraph(...) builds a view; the graph itself is left as it was.
GraphAfterView(g, node) == g

\* Lines 65-70 of one entry into closeness_vitality: which way it leaves
\* (raise / single / all), with what value, the local wiener_index it leaves
\* with, how often line 66 ran, and the graph it leaves behind.
ClosenessVitality(g, node, weight, wi) ==
    LET computed == IF wi = NoneVal THEN 1 ELSE 0
        b == Baseline(g, weight, wi)
    IN  IF IsErr(b)
        THEN [branch |-> "raise", val |-> b, base |-> wi, computed |-> computed, g |-> g]
        ELSE IF node # None
        THEN LET r == VitalityOfNode(g, node, weight, b)
             IN  [branch |-> IF IsErr(r) THEN "raise" ELSE "single",
                  val |-> r, base |-> b, computed |-> computed,
                  g |-> GraphAfterView(g, node)]
        ELSE [branch |-> "all", val |-> NoneVal, base |-> b, computed |-> computed,
              g |-> g]

Abs(n) == IF n < 0 THEN -n ELSE n

\* Variant of ResolveNJobs: the clamp keeps the sign of the request.
ResolveNJobs_SignPreserved(n) ==
    IF Abs(n) > NCpus THEN (IF n < 0 THEN -NCpus ELSE NCpus) ELSE n

\* Lines 72-74: the n_jobs handed to Parallel.
ResolveNJobs(n) == IF Abs(n) > NCpus THEN NCpus ELSE n

\* joblib: the number of workers Parallel(n_jobs=n) runs (n # 0).
EffectiveNJobs(n) ==
    IF n < 0 THEN (IF NCpus + 1 + n > 1 THEN NCpus + 1 + n ELSE 1) ELSE n

\* Line 77: the nodes the generator `for v in G` yields, one task each.
FanOutNodes(g) == g.nodes

\* ------------------------------------------------------------------- state
VARIABLES
    G,              \* the caller's graph
    pc,             \* "idle", "fanout", "done", "failed"
    args,           \* the arguments of the call in progress
    wiener_index,   \* the local wiener_index after line 66
    n_jobs,         \* the local n_jobs after line 74
    tasks,          \* node -> the task Parallel runs for it
    ret,            \* what the call returned or raised
    baselineCalls,  \* executions of line 66 during the call, tasks included
    fanOuts         \* executions of line 77 during the call, tasks included

vars == <<G, pc, args, wiener_index, n_jobs, tasks, ret, baselineCalls, fanOuts>>

NoArgs == [node |-> None, weight |-> "None", wiener_index |-> NoneVal, n_jobs |-> -1]
NoRet == [kind |-> "none", val |-> NoneVal, map |-> <<>>]
Scalar(x) == [kind |-> "scalar", val |-> x, map |-> <<>>]
Raised(x) == [kind |-> "raise", val |-> x, map |-> <<>>]
Dict(m) == [kind |-> "dict", val |-> NoneVal, map |-> m]

\* Arguments the caller may pass.
NodeArgs == 0..(MaxNodes + 1)
BaselineArgs == {NoneVal, Fin(7)}
NJobsArgs == {-(NCpus + 1), -NCpus, -1, 0, 1, NCpus, NCpus + 1}

Init ==
    /\ G \in Graphs
    /\ pc = "idle"
    /\ args = NoArgs
    /\ wiener_index = NoneVal
    /\ n_jobs = -1
    /\ tasks = <<>>
    /\ ret = NoRet
    /\ baselineCalls = 0
    /\ fanOuts = 0

\* Variant of TaskArgs: the partial of line 76 does not bind weight.
TaskArgs_UnitWeight(v) ==
    [node |-> v, weight |-> "None", wiener_index |-> wiener_index]

\* Variant of TaskArgs: the partial of line 76 does not bind wiener_index.
TaskArgs_NoBaseline(v) ==
    [node |-> v, weight |-> args.weight, wiener_index |-> NoneVal]

\* Variant of TaskArgs: the task does not pass its node.
TaskArgs_NoNode(v) ==
    [node |-> None, weight |-> args.weight, wiener_index |-> wiener_index]

\* Line 76: the arguments `vitality(v)` passes when it re-enters the function.
TaskArgs(v) == [node |-> v, weight |-> args.weight, wiener_index |-> wiener_index]

\* The task `(v, vitality(v))` of line 77, run by a worker.
TaskCall(v) ==
    LET a == TaskArgs(v) IN ClosenessVitality(G, a.node, a.weight, a.wiener_index)

\* closeness_vitality(G, node, weight, wiener_index, n_jobs), lines 62-77, up to
\* the return of line 70, a raised exception, or the dispatch of the tasks;
\* r is what lines 65-70 yield for these arguments.  G is the graph that lines
\* 62-63 leave in G (the graph_object of a wrapper, or the argument itself).
CallWith(node, weight, wi, nj, r) ==
    /\ args' = [node |-> node, weight |-> weight, wiener_index |-> wi, n_jobs |-> nj]
    /\ baselineCalls' = r.computed
    /\ \/ /\ r.branch = "raise"
          /\ pc' = "failed"
          /\ ret' = Raised(r.val)
          /\ wiener_index' = r.base
          /\ UNCHANGED <<n_jobs, tasks, fanOuts>>
       \/ /\ r.branch = "single"
          /\ pc' = "done"
          /\ ret' = Scalar(r.val)
          /\ wiener_index' = r.base
          /\ UNCHANGED <<n_jobs, tasks, fanOuts>>
       \/ /\ r.branch = "all"
          /\ n_jobs' = ResolveNJobs(nj)
          /\ wiener_index' = r.base
          /\ fanOuts' = 1
          /\ IF n_jobs' = 0
             THEN /\ pc' = "failed"
                  /\ ret' = Raised(Raise("ValueError"))
                  /\ UNCHANGED tasks
             ELSE /\ pc' = "fanout"
                  /\ tasks' = [v \in FanOutNodes(G) |->
                                 [st |-> "pending", val |-> NoneVal, wi |-> NoneVal]]
                  /\ UNCHANGED ret
    /\ G' = r.g

Call ==
    /\ pc = "idle"
    /\ \E node \in NodeArgs, weight \in Weights, wi \in BaselineArgs :
          \E r \in {ClosenessVitality(G, node, weight, wi)} :
              \E nj \in IF node = None THEN NJobsArgs ELSE {-1} :
                  CallWith(node, weight, wi, nj, r)

Running == {v \in DOMAIN tasks : tasks[v].st = "running"}

\* A free worker picks the next pending task; Parallel consumes the generator
\* of line 77 in G's iteration order (here: ascending).
TaskStart(v) ==
    /\ pc = "fanout"
    /\ tasks[v].st = "pending"
    /\ \A u \in DOMAIN tasks : u < v => tasks[u].st # "pending"
    /\ Cardinality(Running) < EffectiveNJobs(n_jobs)
    /\ tasks' = [tasks EXCEPT ![v].st = "running", ![v].wi = TaskArgs(v).wiener_index]
    /\ UNCHANGED <<G, pc, args, wiener_index, n_jobs, ret, baselineCalls, fanOuts>>

\* The worker finishes `(v, vitality(v))`: a value, or an exception.
TaskFinish(v) ==
    /\ pc = "fanout"
    /\ tasks[v].st = "running"
    /\ \E r \in {TaskCall(v)} :
          /\ baselineCalls' = baselineCalls + r.computed
          /\ \/ /\ r.branch = "raise"
                /\ tasks' = [tasks EXCEPT ![v].st = "failed", ![v].val = r.val]
                /\ UNCHANGED fanOuts
             \/ /\ r.branch = "single"
                /\ tasks' = [tasks EXCEPT ![v].st = "done", ![v].val = r.val]
                /\ UNCHANGED fanOuts
             \/ /\ r.branch = "all"
                /\ tasks' = [tasks EXCEPT ![v].st = "done", ![v].val = DictVal]
                /\ fanOuts' = fanOuts + 1
          /\ G' = r.g
    /\ UNCHANGED <<pc, args, wiener_index, n_jobs, ret>>

\* Parallel re-raises a failed task's exception in the caller; line 78 never runs.
Abort ==
    /\ pc = "fanout"
    /\ \E v \in DOMAIN tasks :
          /\ tasks[v].st = "failed"
          /\ ret' = Raised(tasks[v].val)
    /\ pc' = "failed"
    /\ UNCHANGED <<G, args, wiener_index, n_jobs, tasks, baselineCalls, fanOuts>>

\* Variant of Join: failed tasks are dropped and the rest is returned.
Join_IgnoringFailures ==
    /\ pc = "fanout"
    /\ \A v \in DOMAIN tasks : tasks[v].st \in {"done", "failed"}
    /\ pc' = "done"
    /\ ret' = Dict([v \in {u \in DOMAIN tasks : tasks[u].st = "done"} |-> tasks[v].val])
    /\ UNCHANGED <<G, args, wiener_index, n_jobs, tasks, baselineCalls, fanOuts>>

\* Variant of Join: the results so far are returned while tasks are pending.
Join_Early ==
    /\ pc = "fanout"
    /\ \A v \in DOMAIN tasks : tasks[v].st \in {"done", "pending"}
    /\ pc' = "done"
    /\ ret' = Dict([v \in {u \in DOMAIN tasks : tasks[u].st = "done"} |-> tasks[v].val])
    /\ UNCHANGED <<G, args, wiener_index, n_jobs, tasks, baselineCalls, fanOuts>>

\* Line 78: every task completed, Parallel returned the list, dict(result).
Join ==
    /\ pc = "fanout"
    /\ \A v \in DOMAIN tasks : tasks[v].st = "done"
    /\ pc' = "done"
    /\ ret' = Dict([v \in DOMAIN tasks |-> tasks[v].val])
    /\ UNCHANGED <<G, args, wiener_index, n_jobs, tasks, baselineCalls, fanOuts>>

\* The caller has the outcome and may call again on the same graph.
Reset ==
    /\ pc \in {"done", "failed"}
    /\ pc' = "idle"
    /\ args' = NoArgs
    /\ wiener_index' = NoneVal
    /\ n_jobs' = -1
    /\ tasks' = <<>>
    /\ ret' = NoRet
    /\ baselineCalls' = 0
    /\ fanOuts' = 0
    /\ UNCHANGED G

Next ==
    \/ Call
    \/ \E v \in DOMAIN tasks : TaskStart(v)
    \/ \E v \in DOMAIN tasks : TaskFinish(v)
    \/ Abort
    \/ Join
    \/ Reset

Spec == Init /\ [][Next]_vars

\* --------------------------------------------------------------- properties
Ended == pc \in {"done", "failed"}
ReturnedDict == pc = "done" /\ ret.kind = "dict"
ReturnedScalar == pc = "done" /\ ret.kind = "scalar"
AllNodesCall == pc # "idle" /\ args.node = None
SingleNodeCall == pc # "idle" /\ args.node # None

\* What closeness_vitality(G, node=v) yields with the weight and the (supplied
\* or omitted) baseline of the call in progress.
SingleNodeResult(v) == ClosenessVitality(G, v, args.weight, args.wiener_index)

\* G without v is not empty and not connected.
Disconnects(v) ==
    LET view == Subgraph(G, G.nodes \ {v})
    IN  view.nodes # {} /\ ~IsConnected(view)

\* C1 (as stated): every entry of the mapping an all-nodes call returns
\* compares equal (Python ==) to the scalar the single-node call returns for
\* that node with the same weight and baseline.
C1_EqualAsFloats ==
    ReturnedDict =>
        \A v \in G.nodes :
            /\ SingleNodeResult(v).branch = "single"
            /\ FloatEq(SingleNodeResult(v).val, ret.map[v])

\* C1 (amended): every entry of the mapping an all-nodes call returns is the
\* same float as the scalar the single-node call returns for that node with
\* the same weight and baseline: the same number, or NaN on both sides.
C1_SameValue ==
    ReturnedDict =>
        \A v \in G.nodes :
            /\ SingleNodeResult(v).branch = "single"
            /\ SingleNodeResult(v).val = ret.map[v]

C1_Witness ==
    /\ ReturnedDict
    /\ args.weight = "weight"
    /\ \E v \in G.nodes : ret.map[v].k = "nan"

\* C2: whenever (G, weight, baseline) determine a mapping (the baseline and
\* every node's vitality can be computed), an all-nodes call returns exactly
\* that mapping, whatever n_jobs was requested and however the tasks ran.
C2_SameMappingForEveryNJobs ==
    (Ended /\ AllNodesCall
        /\ \A v \in G.nodes : SingleNodeResult(v).branch = "single"
        /\ ~IsErr(Baseline(G, args.weight, args.wiener_index)))
    => /\ ret.kind = "dict"
       /\ DOMAIN ret.map = G.nodes
       /\ \A v \in G.nodes : ret.map[v] = SingleNodeResult(v).val

Sign(n) == IF n < 0 THEN -1 ELSE 1

\* C3 (as stated): a request whose magnitude exceeds the unit count is handed
\* to the executor as the unit count with the sign of the request; any other
\* request is handed over unchanged.
C3_SignPreserved ==
    (AllNodesCall /\ fanOuts >= 1) =>
        /\ Abs(args.n_jobs) > NCpus => n_jobs = Sign(args.n_jobs) * NCpus
        /\ Abs(args.n_jobs) <= NCpus => n_jobs = args.n_jobs

\* C3 (amended): a request whose magnitude exceeds the unit count is handed to
\* the executor as the positive unit count, whatever its sign; any other
\* request is handed over unchanged.
C3_ClampToCpuCount ==
    (AllNodesCall /\ fanOuts >= 1) =>
        /\ (args.n_jobs > NCpus \/ args.n_jobs < -NCpus) => n_jobs = NCpus
        /\ (-NCpus <= args.n_jobs /\ args.n_jobs <= NCpus) => n_jobs = args.n_jobs

C3_Witness ==
    /\ pc = "fanout"
    /\ args.n_jobs = -(NCpus + 1)
    /\ n_jobs = NCpus

\* C4 (as stated): a single-node call for a node that is not in G never
\* returns a number.
C4_NeverNumericForMissingNode ==
    ~(ReturnedScalar /\ args.node \notin G.nodes)

\* C4 (amended): a single-node call for a node that is not in G raises no
\* node-not-found error: the view is all of G, and the call returns the
\* baseline minus the Wiener index of G itself, or raises what wiener_index
\* raises on G.
C4_MissingNodeGivesBaselineMinusWholeGraph ==
    (Ended /\ SingleNodeCall /\ args.node \notin G.nodes) =>
        LET whole == WienerIndex(G, args.weight)
        IN  IF IsErr(whole)
            THEN ret = Raised(whole)
            ELSE ret = Scalar(FloatSub(wiener_index, whole))

C4_Witness ==
    /\ ReturnedScalar
    /\ args.node \notin G.nodes
    /\ args.wiener_index = NoneVal
    /\ ret.val = Fin(0)

\* C5: once a task of the fan-out has failed, the call never returns a
\* mapping: it ends raising the exception of a failed task.
C5_TaskFailureFailsTheCall ==
    (Ended /\ \E v \in DOMAIN tasks : tasks[v].st = "failed") =>
        /\ pc = "failed"
        /\ ret.kind = "raise"
        /\ \E v \in DOMAIN tasks : tasks[v].st = "failed" /\ ret.val = tasks[v].val

C5_Witness ==
    /\ pc = "failed"
    /\ \E v \in DOMAIN tasks : tasks[v].st = "failed" /\ ret.val = tasks[v].val
    /\ \E v \in DOMAIN tasks : tasks[v].st = "done"

\* C6: an all-nodes call returns only when every task has completed, and the
\* mapping then has exactly the nodes of G as keys, each with its task's result.
C6_FullJoinOneEntryPerNode ==
    ReturnedDict =>
        /\ \A v \in DOMAIN tasks : tasks[v].st = "done"
        /\ DOMAIN ret.map = G.nodes
        /\ \A v \in G.nodes : v \in DOMAIN tasks /\ ret.map[v] = tasks[v].val

C6_Witness ==
    /\ ReturnedDict
    /\ Cardinality(G.nodes) >= 3
    /\ \A v \in G.nodes : ret.map[v] = tasks[v].val

\* C7: during one call line 66 runs once if the caller gave no baseline and
\* never if the caller gave one, tasks included; every task is handed the
\* baseline of the outer call.
C7_BaselineAtMostOnce ==
    pc # "idle" =>
        /\ baselineCalls = IF args.wiener_index = NoneVal THEN 1 ELSE 0
        /\ \A v \in DOMAIN tasks :
              tasks[v].st # "pending" =>
                  tasks[v].wi = wiener_index /\ tasks[v].wi # NoneVal

C7_Witness ==
    /\ ReturnedDict
    /\ args.wiener_index = NoneVal
    /\ baselineCalls = 1
    /\ Cardinality(G.nodes) >= 3

\* C8: with G connected and a finite baseline, a node whose removal
\* disconnects the rest has vitality -inf: as the scalar of a single-node
\* call, which then does return, and as its entry of a returned mapping.
C8_ArticulationNodeNegInf ==
    /\ (Ended /\ SingleNodeCall /\ args.node \in G.nodes /\ wiener_index.k = "fin"
           /\ IsConnected(G) /\ Disconnects(args.node))
       => ret = Scalar(NegInf)
    /\ (ReturnedDict /\ wiener_index.k = "fin" /\ G.nodes # {} /\ IsConnected(G))
       => \A v \in G.nodes : Disconnects(v) => ret.map[v] = NegInf

C8_Witness ==
    /\ ReturnedDict
    /\ wiener_index.k = "fin"
    /\ args.wiener_index = NoneVal
    /\ IsConnected(G)
    /\ \E v \in G.nodes : Disconnects(v) /\ ret.map[v] = NegInf

\* C9: no step of any call, of either mode, changes the caller's graph.
C9_GraphNeverMutated == [][G' = G]_vars

C9_Witness ==
    /\ pc = "fanout"
    /\ \E v \in DOMAIN tasks : tasks[v].st = "done"
    /\ \E v \in DOMAIN tasks : tasks[v].st = "running"

\* C10: an all-nodes call creates exactly one task per node of G, every task
\* leaves closeness_vitality by the single-node branch with a scalar, and line
\* 77 runs once per call: no task fans out again.
C10_OneTaskPerNodeNoNestedFanOut ==
    /\ fanOuts <= 1
    /\ pc = "fanout" \/ ReturnedDict => DOMAIN tasks = G.nodes
    /\ \A v \in DOMAIN tasks :
          tasks[v].st = "done" => tasks[v].val.k \in {"fin", "inf", "ninf", "nan"}

C10_Witness ==
    /\ ReturnedDict
    /\ fanOuts = 1
    /\ Cardinality(DOMAIN tasks) >= 3

====
